---- MODULE Spec2Model ----
(***************************************************************************)
(* Waiting-list operations of the ambulance web API                        *)
(* (internal/ambulance_wl/impl_ambulance_waiting_list.go).                 *)
(*                                                                         *)
(* Every handler hands a closure to updateAmbulanceFunc.  The closure      *)
(* receives the ambulance document that was fetched and returns            *)
(* (new state or nil, payload, status).  The closures are modelled as the  *)
(* operators CreateWaitingListEntry .. UpdateWaitingListEntry, translated  *)
(* from the source.  updateAmbulanceFunc, reconcileWaitingList and the     *)
(* store are not part of the visible source; they are modelled from the    *)
(* specification (sections 4.1, 4.2, 5).                                   *)
(***************************************************************************)
EXTENDS Integers, Sequences, FiniteSets, TLC

VARIABLES
    store,      \* the persisted ambulance document
    last,       \* the last completed request of the sequential specification
    pc,         \* per worker: "idle" or "fetched" (between fetch and replace)
    snap,       \* per worker: the ambulance document it fetched
    current,    \* per worker: the stored document was not replaced since the fetch
    res         \* per worker: outcome of its last completed request

vars == <<store, last, pc, snap, current, res>>

\* ------------------------------------------------------------------ bounds
\* Longest waiting list the model lets Create build.
MaxLen == 2

\* ------------------------------------------------------------ value domains
\* Entry ids a caller supplies in a body; uuid.NewString() draws from GenIds.
CallerIds == {"a"}
GenIds == {"g"}
BodyIds == CallerIds \cup {"", "@new"}
\* Values of the entryId path parameter.
PathIds == CallerIds \cup GenIds \cup {"", "@new"}
PatientIds == {"P1", "P2"}
BodyPatientIds == PatientIds \cup {""}
\* Timestamps relative to the zero time.Time{}, which is 0.
Times == {0, 1, 2}
\* int32 minutes.
Durations == {0, 1}

\* Lexicographic order of the id strings in use ("" < "@new" < "a" < ...).
IdOrder == <<"", "@new", "a", "g">>

IdRank(id) == CHOOSE i \in 1..Len(IdOrder) : IdOrder[i] = id

Entry(id, patientId, waitingSince, minutes) ==
    [Id |-> id, PatientId |-> patientId, WaitingSince |-> waitingSince,
     EstimatedDurationMinutes |-> minutes]

\* The zero value of WaitingListEntry (var entry WaitingListEntry).
ZeroEntry == Entry("", "", 0, 0)

Bodies ==
    {Entry(i, p, t, d) : i \in BodyIds, p \in BodyPatientIds, t \in Times, d \in Durations}

\* An Ambulance value: WaitingList is a Go slice, nil or not.
Ambulance(list, isNil) == [WaitingList |-> list, IsNil |-> isNil]

\* -------------------------------------------------------------- payloads
\* The interface{} payload of a closure: an entry, a list, a gin.H error
\* object, or nil.
EntryPayload(e) ==
    [kind |-> "entry", entry |-> e, list |-> <<>>, isNil |-> FALSE, message |-> ""]

ListPayload(list, isNil) ==
    [kind |-> "list", entry |-> ZeroEntry, list |-> list, isNil |-> isNil, message |-> ""]

ErrorPayload(msg) ==
    [kind |-> "error", entry |-> ZeroEntry, list |-> <<>>, isNil |-> FALSE, message |-> msg]

NilPayload ==
    [kind |-> "nil", entry |-> ZeroEntry, list |-> <<>>, isNil |-> TRUE, message |-> ""]

\* What a closure returns.  nilState: the *Ambulance returned is nil.
Result(ambulance, nilState, payload, status) ==
    [ambulance |-> ambulance, nilState |-> nilState, payload |-> payload, status |-> status]

\* ------------------------------------------------------------ list helpers
\* slices.IndexFunc with a predicate on the id; 1-based, 0 for "not found"
\* (Go: 0-based, -1).
IndexById(list, id) ==
    IF \E i \in 1..Len(list) : list[i].Id = id
    THEN CHOOSE i \in 1..Len(list) :
            /\ list[i].Id = id
            /\ \A j \in 1..(i - 1) : list[j].Id # id
    ELSE 0

\* The conflict predicate of Create: same id or same patientId.
ConflictsIdOnly(entry, waiting) == entry.Id = waiting.Id

ConflictsWith(entry, waiting) ==
    entry.Id = waiting.Id \/ entry.PatientId = waiting.PatientId

\* slices.IndexFunc with the conflict predicate.
ConflictIndex(list, entry) ==
    IF \E i \in 1..Len(list) : ConflictsWith(entry, list[i])
    THEN CHOOSE i \in 1..Len(list) :
            /\ ConflictsWith(entry, list[i])
            /\ \A j \in 1..(i - 1) : ~ConflictsWith(entry, list[j])
    ELSE 0

\* The id of the entry Create adds: generated when the body's id is absent or
\* the placeholder.
CreateEntryIdAsGiven(body, genId) == body.Id

CreateEntryIdEmptyOnly(body, genId) ==
    IF body.Id = "" THEN genId ELSE body.Id

CreateEntryId(body, genId) ==
    IF body.Id = "" \/ body.Id = "@new" THEN genId ELSE body.Id

\* append(list[:i], list[i+1:]...)
RemoveAtTruncates(list, i) == SubSeq(list, 1, i - 1)

RemoveAt(list, i) == [k \in 1..(Len(list) - 1) |-> IF k < i THEN list[k] ELSE list[k + 1]]

\* ------------------------------------------------------------- reconciler
\* Ordering rule of the reconciler: waitingSince ascending, ties by id.
PrecedesOrSame(l, r) ==
    \/ l.WaitingSince < r.WaitingSince
    \/ /\ l.WaitingSince = r.WaitingSince
       /\ IdRank(l.Id) <= IdRank(r.Id)

Precedes(l, r) ==
    \/ l.WaitingSince < r.WaitingSince
    \/ /\ l.WaitingSince = r.WaitingSince
       /\ IdRank(l.Id) < IdRank(r.Id)

\* Stable insertion of e into a list that is already in order.
RECURSIVE InsertSorted(_, _)
InsertSorted(e, list) ==
    IF list = <<>> THEN <<e>>
    ELSE IF Precedes(e, Head(list)) THEN <<e>> \o list
    ELSE <<Head(list)>> \o InsertSorted(e, Tail(list))

RECURSIVE SortEntries(_)
SortEntries(list) ==
    IF list = <<>> THEN <<>>
    ELSE InsertSorted(list[Len(list)], SortEntries(SubSeq(list, 1, Len(list) - 1)))

\* ambulance.reconcileWaitingList(): sorts the list in place.
reconcileWaitingList(ambulance) ==
    Ambulance(SortEntries(ambulance.WaitingList), ambulance.IsNil)

\* ------------------------------------------------------------ status codes
StatusOK == 200
StatusNoContent == 204
StatusBadRequest == 400
StatusNotFound == 404
StatusConflict == 409
StatusInternalServerError == 500

\* ------------------------------------------------- the five closures
\* Each takes the fetched ambulance and the request (whether the JSON body
\* binds, the bound body, the entryId path parameter, the uuid the generator
\* would return) and gives the closure's return value.

CreateWaitingListEntry(ambulance, bindOk, body, genId) ==
    IF ~bindOk
    THEN Result(ambulance, TRUE, ErrorPayload("Invalid request body"), StatusBadRequest)
    ELSE IF body.PatientId = ""
    THEN Result(ambulance, TRUE, ErrorPayload("Patient ID is required"), StatusBadRequest)
    ELSE
      LET entry == [body EXCEPT !.Id = CreateEntryId(body, genId)]
          conflictIndx == ConflictIndex(ambulance.WaitingList, entry)
      IN  IF conflictIndx > 0
          THEN Result(ambulance, TRUE, ErrorPayload("Entry already exists"), StatusConflict)
          ELSE
            LET appended == Ambulance(Append(ambulance.WaitingList, entry), FALSE)
                reconciled == reconcileWaitingList(appended)
                entryIndx == IndexById(reconciled.WaitingList, entry.Id)
            IN  IF entryIndx = 0
                THEN Result(reconciled, TRUE, ErrorPayload("Failed to save entry"),
                            StatusInternalServerError)
                ELSE Result(reconciled, FALSE,
                            EntryPayload(reconciled.WaitingList[entryIndx]), StatusOK)

DeleteMissingSucceeds(ambulance, entryId) ==
    IF entryId = ""
    THEN Result(ambulance, TRUE, ErrorPayload("Entry ID is required"), StatusBadRequest)
    ELSE
      LET entryIndx == IndexById(ambulance.WaitingList, entryId)
      IN  IF entryIndx = 0
          THEN Result(reconcileWaitingList(Ambulance(ambulance.WaitingList, FALSE)),
                      FALSE, NilPayload, StatusNoContent)
          ELSE Result(reconcileWaitingList(
                          Ambulance(RemoveAt(ambulance.WaitingList, entryIndx), FALSE)),
                      FALSE, NilPayload, StatusNoContent)

DeleteWaitingListEntry(ambulance, entryId) ==
    IF entryId = ""
    THEN Result(ambulance, TRUE, ErrorPayload("Entry ID is required"), StatusBadRequest)
    ELSE
      LET entryIndx == IndexById(ambulance.WaitingList, entryId)
      IN  IF entryIndx = 0
          THEN Result(ambulance, TRUE, ErrorPayload("Entry not found"), StatusNotFound)
          ELSE Result(reconcileWaitingList(
                          Ambulance(RemoveAt(ambulance.WaitingList, entryIndx), FALSE)),
                      FALSE, NilPayload, StatusNoContent)

GetEntriesAsStored(ambulance) ==
    Result(ambulance, TRUE, ListPayload(ambulance.WaitingList, ambulance.IsNil), StatusOK)

GetWaitingListEntries(ambulance) ==
    LET result == IF ambulance.IsNil
                  THEN ListPayload(<<>>, FALSE)
                  ELSE ListPayload(ambulance.WaitingList, FALSE)
    IN  Result(ambulance, TRUE, result, StatusOK)

GetEntrySavesAmbulance(ambulance, entryId) ==
    IF entryId = ""
    THEN Result(ambulance, TRUE, ErrorPayload("Entry ID is required"), StatusBadRequest)
    ELSE
      LET entryIndx == IndexById(ambulance.WaitingList, entryId)
      IN  IF entryIndx = 0
          THEN Result(ambulance, TRUE, ErrorPayload("Entry not found"), StatusNotFound)
          ELSE Result(ambulance, FALSE, EntryPayload(ambulance.WaitingList[entryIndx]),
                      StatusOK)

GetWaitingListEntry(ambulance, entryId) ==
    IF entryId = ""
    THEN Result(ambulance, TRUE, ErrorPayload("Entry ID is required"), StatusBadRequest)
    ELSE
      LET entryIndx == IndexById(ambulance.WaitingList, entryId)
      IN  IF entryIndx = 0
          THEN Result(ambulance, TRUE, ErrorPayload("Entry not found"), StatusNotFound)
          ELSE Result(ambulance, TRUE, EntryPayload(ambulance.WaitingList[entryIndx]),
                      StatusOK)

\* The field-by-field merge of Update into the entry at entryIndx.
MergeEntryPatientAlways(stored, entry) ==
    [Id |-> IF entry.Id # "" THEN entry.Id ELSE stored.Id,
     PatientId |-> entry.PatientId,
     WaitingSince |-> IF entry.WaitingSince > 0
                      THEN entry.WaitingSince ELSE stored.WaitingSince,
     EstimatedDurationMinutes |->
         IF entry.EstimatedDurationMinutes > 0
         THEN entry.EstimatedDurationMinutes ELSE stored.EstimatedDurationMinutes]

MergeEntryIdAlways(stored, entry) ==
    [Id |-> entry.Id,
     PatientId |-> IF entry.PatientId # "" THEN entry.PatientId ELSE stored.PatientId,
     WaitingSince |-> IF entry.WaitingSince > 0
                      THEN entry.WaitingSince ELSE stored.WaitingSince,
     EstimatedDurationMinutes |->
         IF entry.EstimatedDurationMinutes > 0
         THEN entry.EstimatedDurationMinutes ELSE stored.EstimatedDurationMinutes]

MergeEntryKeepsId(stored, entry) ==
    [Id |-> stored.Id,
     PatientId |-> IF entry.PatientId # "" THEN entry.PatientId ELSE stored.PatientId,
     WaitingSince |-> IF entry.WaitingSince > 0
                      THEN entry.WaitingSince ELSE stored.WaitingSince,
     EstimatedDurationMinutes |->
         IF entry.EstimatedDurationMinutes > 0
         THEN entry.EstimatedDurationMinutes ELSE stored.EstimatedDurationMinutes]

MergeEntry(stored, entry) ==
    [Id |-> IF entry.Id # "" THEN entry.Id ELSE stored.Id,
     PatientId |-> IF entry.PatientId # "" THEN entry.PatientId ELSE stored.PatientId,
     WaitingSince |-> IF entry.WaitingSince > 0
                      THEN entry.WaitingSince ELSE stored.WaitingSince,
     EstimatedDurationMinutes |->
         IF entry.EstimatedDurationMinutes > 0
         THEN entry.EstimatedDurationMinutes ELSE stored.EstimatedDurationMinutes]

UpdateWithoutReconcile(ambulance, bindOk, body, entryId) ==
    IF ~bindOk
    THEN Result(ambulance, TRUE, ErrorPayload("Invalid request body"), StatusBadRequest)
    ELSE IF entryId = ""
    THEN Result(ambulance, TRUE, ErrorPayload("Entry ID is required"), StatusBadRequest)
    ELSE
      LET entryIndx == IndexById(ambulance.WaitingList, entryId)
      IN  IF entryIndx = 0
          THEN Result(ambulance, TRUE, ErrorPayload("Entry not found"), StatusNotFound)
          ELSE
            LET merged == [ambulance.WaitingList EXCEPT
                              ![entryIndx] = MergeEntry(ambulance.WaitingList[entryIndx], body)]
            IN  Result(Ambulance(merged, ambulance.IsNil), FALSE,
                       EntryPayload(merged[entryIndx]), StatusOK)

UpdateMergesFirst(ambulance, bindOk, body, entryId) ==
    IF ~bindOk
    THEN Result(ambulance, TRUE, ErrorPayload("Invalid request body"), StatusBadRequest)
    ELSE IF entryId = ""
    THEN Result(ambulance, TRUE, ErrorPayload("Entry ID is required"), StatusBadRequest)
    ELSE
      LET entryIndx == IndexById(ambulance.WaitingList, entryId)
      IN  IF entryIndx = 0
          THEN Result(ambulance, TRUE, ErrorPayload("Entry not found"), StatusNotFound)
          ELSE
            LET merged == [ambulance.WaitingList EXCEPT
                              ![1] = MergeEntry(ambulance.WaitingList[1], body)]
                reconciled == reconcileWaitingList(Ambulance(merged, ambulance.IsNil))
            IN  Result(reconciled, FALSE,
                       EntryPayload(reconciled.WaitingList[entryIndx]), StatusOK)

UpdateWaitingListEntry(ambulance, bindOk, body, entryId) ==
    IF ~bindOk
    THEN Result(ambulance, TRUE, ErrorPayload("Invalid request body"), StatusBadRequest)
    ELSE IF entryId = ""
    THEN Result(ambulance, TRUE, ErrorPayload("Entry ID is required"), StatusBadRequest)
    ELSE
      LET entryIndx == IndexById(ambulance.WaitingList, entryId)
      IN  IF entryIndx = 0
          THEN Result(ambulance, TRUE, ErrorPayload("Entry not found"), StatusNotFound)
          ELSE
            LET merged == [ambulance.WaitingList EXCEPT
                              ![entryIndx] = MergeEntry(ambulance.WaitingList[entryIndx], body)]
                reconciled == reconcileWaitingList(Ambulance(merged, ambulance.IsNil))
            IN  \* the payload is read at the index found before the reconciliation
                Result(reconciled, FALSE,
                       EntryPayload(reconciled.WaitingList[entryIndx]), StatusOK)

\* ------------------------------------------------------------- the updater
\* Conditions of the store adapter during one request: the ambulance named by
\* the path exists and the store answers ("ok"), the ambulance does not exist
\* ("notfound"), the fetch fails ("fetcherr"), the replace fails ("replaceerr").
Conditions == {"ok", "notfound", "fetcherr", "replaceerr"}

\* replaceAmbulance succeeds when the store answers and the document was not
\* replaced by another request since this request fetched it.
ReplaceLastWriterWins(cond, isCurrent) == cond = "ok"

ReplaceSucceeds(cond, isCurrent) == cond = "ok" /\ isCurrent

\* updateAmbulanceFunc after the fetch: r is the closure's return value
\* (evaluated only when the fetch succeeded).  Gives the HTTP response and
\* whether the store document was replaced.
\* replaces: the number of replaceAmbulance calls issued.
updateAmbulanceFuncRetries(cond, isCurrent, r) ==
    IF cond = "notfound"
    THEN [ran |-> FALSE, wrote |-> FALSE, replaces |-> 0, status |-> StatusNotFound,
          payload |-> ErrorPayload("Ambulance not found")]
    ELSE IF cond = "fetcherr"
    THEN [ran |-> FALSE, wrote |-> FALSE, replaces |-> 0,
          status |-> StatusInternalServerError,
          payload |-> ErrorPayload("Failed to load ambulance")]
    ELSE IF r.nilState
    THEN [ran |-> TRUE, wrote |-> FALSE, replaces |-> 0, status |-> r.status,
          payload |-> r.payload]
    ELSE IF ReplaceSucceeds(cond, isCurrent)
    THEN [ran |-> TRUE, wrote |-> TRUE, replaces |-> 1, status |-> r.status,
          payload |-> r.payload]
    ELSE [ran |-> TRUE, wrote |-> FALSE, replaces |-> 2,
          status |-> StatusInternalServerError,
          payload |-> ErrorPayload("Failed to update ambulance")]

updateAmbulanceFunc(cond, isCurrent, r) ==
    IF cond = "notfound"
    THEN [ran |-> FALSE, wrote |-> FALSE, replaces |-> 0, status |-> StatusNotFound,
          payload |-> ErrorPayload("Ambulance not found")]
    ELSE IF cond = "fetcherr"
    THEN [ran |-> FALSE, wrote |-> FALSE, replaces |-> 0,
          status |-> StatusInternalServerError,
          payload |-> ErrorPayload("Failed to load ambulance")]
    ELSE IF r.nilState
    THEN [ran |-> TRUE, wrote |-> FALSE, replaces |-> 0, status |-> r.status,
          payload |-> r.payload]
    ELSE IF ReplaceSucceeds(cond, isCurrent)
    THEN [ran |-> TRUE, wrote |-> TRUE, replaces |-> 1, status |-> r.status,
          payload |-> r.payload]
    ELSE [ran |-> TRUE, wrote |-> FALSE, replaces |-> 1,
          status |-> StatusInternalServerError,
          payload |-> ErrorPayload("Failed to update ambulance")]

\* ------------------------------------------------------------------- state
Workers == {"w1", "w2"}

NoResult == Result(Ambulance(<<>>, TRUE), TRUE, NilPayload, 0)

NoRequest ==
    [op |-> "none", entryId |-> "", bindOk |-> FALSE, body |-> ZeroEntry, genId |-> "",
     cond |-> "ok", before |-> Ambulance(<<>>, TRUE), ran |-> FALSE, result |-> NoResult,
     status |-> 0, payload |-> NilPayload, wrote |-> FALSE, replaces |-> 0]

NoOutcome ==
    [op |-> "none", stale |-> FALSE, ran |-> FALSE, nilState |-> TRUE,
     closureStatus |-> 0, status |-> 0, wrote |-> FALSE, replaces |-> 0]

\* The ambulance document exists with no entries: its waitingList is absent
\* (decoded as a nil slice) or empty.
Init ==
    /\ store \in {Ambulance(<<>>, TRUE), Ambulance(<<>>, FALSE)}
    /\ last = NoRequest
    /\ pc = [w \in Workers |-> "idle"]
    /\ snap = [w \in Workers |-> Ambulance(<<>>, TRUE)]
    /\ current = [w \in Workers |-> FALSE]
    /\ res = [w \in Workers |-> NoOutcome]

\* ------------------------------------------- sequential requests (Spec)
\* One request from fetch to response, with no other request in between.
\* A request is served once the previous response has been delivered.
Idle == last.op = "none"

\* Store conditions of the sequential specification (a failing replace is part
\* of the concurrent specification).
SeqConditions == {"ok", "notfound", "fetcherr"}

Serve(op, entryId, bindOk, body, genId, cond, r) ==
    LET out == updateAmbulanceFunc(cond, TRUE, r)
    IN  /\ Len(r.ambulance.WaitingList) <= MaxLen
        /\ store' = IF out.wrote THEN r.ambulance ELSE store
        /\ last' = [op |-> op, entryId |-> entryId, bindOk |-> bindOk, body |-> body,
                    genId |-> genId, cond |-> cond, before |-> store, ran |-> out.ran,
                    result |-> IF out.ran THEN r ELSE NoResult,
                    status |-> out.status, payload |-> out.payload, wrote |-> out.wrote,
                    replaces |-> out.replaces]
        /\ UNCHANGED <<pc, snap, current, res>>

\* The closure is not reached unless the fetch succeeded; its inputs are then
\* irrelevant and fixed here.
Reached(cond) == cond \in {"ok", "replaceerr"}

Create ==
    /\ Idle
    /\ \E cond \in SeqConditions, bindOk \in BOOLEAN, body \in Bodies, genId \in GenIds :
        /\ Reached(cond) \/ (~bindOk /\ body = ZeroEntry /\ genId = "g")
        /\ bindOk \/ (body = ZeroEntry /\ genId = "g")
        /\ body.Id \in {"", "@new"} \/ genId = "g"
        /\ Serve("create", "", bindOk, body, genId, cond,
                 CreateWaitingListEntry(store, bindOk, body, genId))

Delete ==
    /\ Idle
    /\ \E cond \in SeqConditions, entryId \in PathIds :
        /\ Reached(cond) \/ entryId = ""
        /\ Serve("delete", entryId, FALSE, ZeroEntry, "", cond,
                 DeleteWaitingListEntry(store, entryId))

GetAll ==
    /\ Idle
    /\ \E cond \in SeqConditions :
        Serve("getall", "", FALSE, ZeroEntry, "", cond, GetWaitingListEntries(store))

GetOne ==
    /\ Idle
    /\ \E cond \in SeqConditions, entryId \in PathIds :
        /\ Reached(cond) \/ entryId = ""
        /\ Serve("getone", entryId, FALSE, ZeroEntry, "", cond,
                 GetWaitingListEntry(store, entryId))

Update ==
    /\ Idle
    /\ \E cond \in SeqConditions, bindOk \in BOOLEAN, body \in Bodies, entryId \in PathIds :
        /\ Reached(cond) \/ (~bindOk /\ body = ZeroEntry /\ entryId = "")
        /\ bindOk \/ body = ZeroEntry
        /\ Serve("update", entryId, bindOk, body, "", cond,
                 UpdateWaitingListEntry(store, bindOk, body, entryId))

\* The response has been delivered; the record of the request is dropped.
Delivered ==
    /\ last.op # "none"
    /\ last' = NoRequest
    /\ UNCHANGED <<store, pc, snap, current, res>>

Next == Create \/ Delete \/ GetAll \/ GetOne \/ Update \/ Delivered

Spec == Init /\ [][Next]_vars

\* ------------------------------------------ concurrent requests (SpecConc)
\* Each worker serves one request at a time.  The fetch and the replace are
\* the two points where a request waits on the store; the closure runs in
\* memory right before the replace.
ConcBodies ==
    {Entry(i, p, 1, 1) : i \in {"", "a"}, p \in {"P1", "P2"}}

ConcConditions == {"ok", "replaceerr"}

Fetch(w) ==
    /\ pc[w] = "idle"
    /\ pc' = [pc EXCEPT ![w] = "fetched"]
    /\ snap' = [snap EXCEPT ![w] = store]
    /\ current' = [current EXCEPT ![w] = TRUE]
    /\ res' = [res EXCEPT ![w] = NoOutcome]
    /\ UNCHANGED <<store, last>>

\* The fetch finds no ambulance or fails: the request is answered at once and
\* the closure does not run.
FetchFails(w) ==
    \E op \in {"create", "delete", "getall", "getone", "update"},
       cond \in {"notfound", "fetcherr"} :
        LET out == updateAmbulanceFunc(cond, FALSE, NoResult)
        IN  /\ pc[w] = "idle"
            /\ res' = [res EXCEPT ![w] =
                          [op |-> op, stale |-> FALSE, ran |-> out.ran,
                           nilState |-> TRUE, closureStatus |-> 0,
                           status |-> out.status, wrote |-> out.wrote,
                           replaces |-> out.replaces]]
            /\ UNCHANGED <<store, last, pc, snap, current>>

\* The closure runs on the worker's snapshot; a successful replace makes every
\* other snapshot out of date.
Finish(w, op, cond, r) ==
    LET out == updateAmbulanceFunc(cond, current[w], r)
    IN  /\ pc[w] = "fetched"
        /\ Len(r.ambulance.WaitingList) <= MaxLen
        /\ store' = IF out.wrote THEN r.ambulance ELSE store
        /\ pc' = [pc EXCEPT ![w] = "idle"]
        /\ snap' = [snap EXCEPT ![w] = Ambulance(<<>>, TRUE)]
        /\ current' = [v \in Workers |-> IF v = w \/ out.wrote THEN FALSE ELSE current[v]]
        /\ res' = [res EXCEPT ![w] =
                      [op |-> op, stale |-> ~current[w], ran |-> TRUE,
                       nilState |-> r.nilState, closureStatus |-> r.status,
                       status |-> out.status, wrote |-> out.wrote,
                       replaces |-> out.replaces]]
        /\ UNCHANGED last

FinishCreate(w) ==
    \E cond \in ConcConditions, body \in ConcBodies :
        Finish(w, "create", cond, CreateWaitingListEntry(snap[w], TRUE, body, "g"))

FinishDelete(w) ==
    \E cond \in ConcConditions, entryId \in {"a", "g"} :
        Finish(w, "delete", cond, DeleteWaitingListEntry(snap[w], entryId))

FinishUpdate(w) ==
    \E cond \in ConcConditions, body \in ConcBodies, entryId \in {"a", "g"} :
        Finish(w, "update", cond, UpdateWaitingListEntry(snap[w], TRUE, body, entryId))

FinishGetAll(w) ==
    Finish(w, "getall", "ok", GetWaitingListEntries(snap[w]))

FinishGetOne(w) ==
    \E entryId \in {"a", "g"} :
        Finish(w, "getone", "ok", GetWaitingListEntry(snap[w], entryId))

NextConc ==
    \E w \in Workers :
        \/ Fetch(w)
        \/ FetchFails(w)
        \/ FinishGetOne(w)
        \/ FinishCreate(w)
        \/ FinishDelete(w)
        \/ FinishUpdate(w)
        \/ FinishGetAll(w)

SpecConc == Init /\ [][NextConc]_vars

\* ------------------------------------- the reconciler alone (SpecReconcile)
\* Entries a stored list can hold, and every list of at most MaxLen of them,
\* in any order.
StoredEntryValues ==
    {Entry(i, p, t, d) : i \in CallerIds \cup GenIds \cup {"@new"}, p \in PatientIds,
                         t \in Times, d \in Durations}

AnyLists == UNION {[1..n -> StoredEntryValues] : n \in 0..MaxLen}

InitReconcile ==
    /\ store \in {Ambulance(list, FALSE) : list \in AnyLists}
    /\ last = NoRequest
    /\ pc = [w \in Workers |-> "idle"]
    /\ snap = [w \in Workers |-> Ambulance(<<>>, TRUE)]
    /\ current = [w \in Workers |-> FALSE]
    /\ res = [w \in Workers |-> NoOutcome]

\* The first reconciliation of the list; last.before keeps the list as given.
Reconcile ==
    /\ last.op = "none"
    /\ store' = reconcileWaitingList(store)
    /\ last' = [NoRequest EXCEPT !.op = "reconcile", !.before = store]
    /\ UNCHANGED <<pc, snap, current, res>>

\* A second reconciliation right after the first; last.result keeps the list
\* the first one produced.
ReconcileAgain ==
    /\ last.op = "reconcile"
    /\ store' = reconcileWaitingList(store)
    /\ last' = [last EXCEPT !.op = "reconcile2",
                            !.result = Result(store, FALSE, NilPayload, 0)]
    /\ UNCHANGED <<pc, snap, current, res>>

NextReconcile == Reconcile \/ ReconcileAgain

SpecReconcile == InitReconcile /\ [][NextReconcile]_vars

\* ================================================================ properties
Stored == store.WaitingList
Before == last.before.WaitingList

\* The closure of the last sequential request ran and the request was `op`.
Served(op) == last.op = op /\ last.ran

Mutating == {"create", "update", "delete"}

\* The entry the path entryId of the last request identified in the list it
\* was served on (the first entry with that id).
TargetIndex == IndexById(Before, last.entryId)

\* C1: no two entries of the stored waiting list share a patientId, after any
\* sequence of Create, Update, Delete, Get-one and Get-all requests.
C1_PatientIdUnique ==
    \A i, j \in 1..Len(Stored) : i # j => Stored[i].PatientId # Stored[j].PatientId

\* C2: no two entries of the stored waiting list share an id, after any
\* sequence of Create, Update and Delete requests.
C2_EntryIdUnique ==
    \A i, j \in 1..Len(Stored) : i # j => Stored[i].Id # Stored[j].Id

C4_ConflictAsStated ==
    (/\ Served("create") /\ last.bindOk
     /\ \E i \in 1..Len(Before) :
           \/ Before[i].PatientId = last.body.PatientId
           \/ Before[i].Id = last.body.Id)
    => (/\ last.status = StatusConflict
        /\ last.result.nilState /\ ~last.wrote
        /\ store = last.before)

\* C4 amended: a Create whose patientId equals that of an entry already in the
\* list, or whose patientId is non-empty and whose id is neither empty nor
\* "@new" and equals the id of an entry already in the list, yields 409, a nil
\* new state, no write, and the stored list as it was.
C4_ConflictRejected ==
    (/\ Served("create") /\ last.bindOk
     /\ \E i \in 1..Len(Before) :
           \/ Before[i].PatientId = last.body.PatientId
           \/ /\ last.body.PatientId # ""
              /\ last.body.Id \notin {"", "@new"}
              /\ Before[i].Id = last.body.Id)
    => (/\ last.status = StatusConflict
        /\ last.result.nilState /\ ~last.wrote
        /\ store = last.before)

\* A Create naming the patient of an existing entry under an id no entry has
\* was answered 409.
C4_Witness ==
    /\ Served("create") /\ last.bindOk
    /\ last.status = StatusConflict
    /\ \E i \in 1..Len(Before) : Before[i].PatientId = last.body.PatientId
    /\ \A i \in 1..Len(Before) : Before[i].Id # last.body.Id
    /\ last.body.Id = "a"
    /\ store = last.before

\* waitingSince ascending, ties by id.
InOrder(list) ==
    \A i, j \in 1..Len(list) :
        i < j =>
            \/ list[i].WaitingSince < list[j].WaitingSince
            \/ /\ list[i].WaitingSince = list[j].WaitingSince
               /\ IdRank(list[i].Id) <= IdRank(list[j].Id)

\* C5: the list persisted by a successful Create, Update or Delete, and the
\* list a Get-all returns, is sorted by waitingSince ascending with ties
\* broken by entry id.
C5_StoredInOrder ==
    /\ (last.op \in Mutating /\ last.wrote) => InOrder(Stored)
    /\ (last.op = "getall" /\ last.status = StatusOK) => InOrder(last.payload.list)

\* An Update moved its entry behind a later one and the stored list is in
\* reconciled order.
C5_Witness ==
    /\ Served("update") /\ last.wrote
    /\ Len(Stored) = 2
    /\ Stored[1].WaitingSince < Stored[2].WaitingSince
    /\ TargetIndex = 1
    /\ Before[2] = Stored[1]

\* The entry at TargetIndex after the merge of the request body, field by
\* field.
ExpectedMerge ==
    LET old == Before[TargetIndex]
        new == last.body
    IN  [Id |-> IF new.Id = "" THEN old.Id ELSE new.Id,
         PatientId |-> IF new.PatientId = "" THEN old.PatientId ELSE new.PatientId,
         WaitingSince |-> IF new.WaitingSince > 0
                          THEN new.WaitingSince ELSE old.WaitingSince,
         EstimatedDurationMinutes |->
             IF new.EstimatedDurationMinutes > 0
             THEN new.EstimatedDurationMinutes ELSE old.EstimatedDurationMinutes]

\* C6: a successful Update returns the entry its path entryId identified,
\* with the request's fields merged into it, never another entry.
C6_UpdateReturnsTarget ==
    (Served("update") /\ last.status = StatusOK)
    => (last.payload.kind = "entry" /\ last.payload.entry = ExpectedMerge)

\* Number of entries of list equal to e.
Count(list, e) == Cardinality({k \in 1..Len(list) : list[k] = e})

\* C7: after a successful Update the entry identified by the path entryId is
\* stored with each of patientId, id, waitingSince, estimatedDurationMinutes
\* taken from the request iff that value is non-empty / after the zero
\* timestamp / greater than zero, and kept otherwise; the entry as it was is
\* stored once less unless the merge changed nothing.
C7_UpdateMerges ==
    (Served("update") /\ last.status = StatusOK)
    => LET old == Before[TargetIndex]
       IN  /\ last.wrote
           /\ Count(Stored, ExpectedMerge) >= 1
           /\ ExpectedMerge # old =>
                 /\ Count(Stored, old) = Count(Before, old) - 1
                 /\ Count(Stored, ExpectedMerge) = Count(Before, ExpectedMerge) + 1
           /\ (last.body.PatientId = "" /\ last.body.Id = ""
                  /\ last.body.EstimatedDurationMinutes = 0) =>
                 \E k \in 1..Len(Stored) :
                     /\ Stored[k].Id = old.Id
                     /\ Stored[k].PatientId = old.PatientId
                     /\ Stored[k].EstimatedDurationMinutes = old.EstimatedDurationMinutes
                     /\ Stored[k].WaitingSince =
                            IF last.body.WaitingSince > 0
                            THEN last.body.WaitingSince ELSE old.WaitingSince

\* An Update with only waitingSince populated changed the target's arrival
\* time and nothing else of it.
C7_Witness ==
    /\ Served("update") /\ last.status = StatusOK
    /\ last.body = Entry("", "", 2, 0)
    /\ Before[TargetIndex].WaitingSince = 1
    /\ Before[TargetIndex].EstimatedDurationMinutes = 1
    /\ Count(Stored, [Before[TargetIndex] EXCEPT !.WaitingSince = 2]) = 1

\* C8: a Create that binds, names a patient and meets no entry with the same
\* id or patientId is answered 200 with the entry as stored: it carries the
\* request's patientId and exactly one stored entry has its id.
C8_CreateReturnsStored ==
    LET id == IF last.body.Id \in {"", "@new"} THEN last.genId ELSE last.body.Id
    IN  (/\ Served("create") /\ last.bindOk
         /\ last.body.PatientId # ""
         /\ \A i \in 1..Len(Before) :
               Before[i].Id # id /\ Before[i].PatientId # last.body.PatientId)
        => (/\ last.status = StatusOK
            /\ last.payload.kind = "entry"
            /\ last.payload.entry.PatientId = last.body.PatientId
            /\ last.payload.entry.Id = id
            /\ Count(Stored, last.payload.entry) = 1
            /\ Cardinality({k \in 1..Len(Stored) :
                               Stored[k].Id = last.payload.entry.Id}) = 1)

\* A Create with the placeholder id joined a list of one entry, ahead of it.
C8_Witness ==
    /\ Served("create") /\ last.status = StatusOK
    /\ last.body.Id = "@new"
    /\ Len(Before) = 1 /\ Len(Stored) = 2
    /\ Stored[1] = last.payload.entry
    /\ Stored[1].Id = "g"

\* C9: a Delete whose (non-empty) path entryId matches no entry yields 404, a
\* nil new state, no write, and the stored list as it was.
C9_DeleteMissing ==
    (/\ Served("delete")
     /\ last.entryId # ""
     /\ \A i \in 1..Len(Before) : Before[i].Id # last.entryId)
    => (/\ last.status = StatusNotFound
        /\ last.result.nilState /\ ~last.wrote
        /\ store = last.before)

\* A Delete of an id no entry has, on a list that has entries.
C9_Witness ==
    /\ Served("delete") /\ last.status = StatusNotFound
    /\ last.entryId = "g"
    /\ Len(Before) = 2
    /\ store = last.before

\* C10: Get-all and Get-one return a nil new state on every path, write
\* nothing and leave the stored document as it was.
C10_ReadsWriteNothing ==
    last.op \in {"getall", "getone"}
    => (/\ last.ran => last.result.nilState
        /\ ~last.wrote
        /\ store = last.before)

\* A Get-one found its entry in a list of two and the document is untouched.
C10_Witness ==
    /\ Served("getone") /\ last.status = StatusOK
    /\ Len(Stored) = 2
    /\ last.payload.entry = Stored[2]
    /\ last.result.nilState
    /\ store = last.before

\* C11: every invocation of the updater issues no replace when the ambulance
\* is not found (or the fetch fails) or the closure returns a nil new state,
\* and exactly one replace, never a second one, when the closure returns a
\* new state; reads issue none, a mutation that succeeds in memory issues one.
C11_AtMostOneReplace ==
    \A w \in Workers :
        res[w].op # "none" =>
            /\ res[w].replaces = IF res[w].ran /\ ~res[w].nilState THEN 1 ELSE 0
            /\ res[w].wrote => res[w].replaces = 1
            /\ res[w].op \in {"getall", "getone"} => res[w].replaces = 0
            /\ (res[w].op \in Mutating /\ res[w].ran) =>
                   (res[w].replaces = 1
                        <=> res[w].closureStatus \in {StatusOK, StatusNoContent})

\* One request's only replace failed and was not repeated; another request
\* found no ambulance and issued none.
C11_Witness ==
    \E w, v \in Workers :
        /\ w # v
        /\ res[w].op = "update" /\ res[w].replaces = 1 /\ ~res[w].wrote
        /\ res[w].status = StatusInternalServerError
        /\ res[v].op = "delete" /\ ~res[v].ran /\ res[v].status = StatusNotFound
        /\ res[v].replaces = 0

\* The entries of a list, as a set.
Entries(list) == {list[k] : k \in 1..Len(list)}

\* C12: a Delete whose path entryId matches an entry yields 204 with no body
\* and persists the list without exactly one entry of that id: one entry
\* shorter, every other entry still there with its fields unchanged.
C12_DeleteRemovesOne ==
    (/\ Served("delete")
     /\ last.entryId # ""
     /\ \E i \in 1..Len(Before) : Before[i].Id = last.entryId)
    => (/\ last.status = StatusNoContent
        /\ last.payload.kind = "nil"
        /\ last.wrote
        /\ Len(Stored) = Len(Before) - 1
        /\ \E i \in 1..Len(Before) :
              /\ Before[i].Id = last.entryId
              /\ \A e \in Entries(Before) :
                    Count(Stored, e) = Count(Before, e) - (IF e = Before[i] THEN 1 ELSE 0))

\* A Delete removed the first of two entries and the other one is what is
\* stored.
C12_Witness ==
    /\ Served("delete") /\ last.status = StatusNoContent
    /\ Len(Before) = 2
    /\ Before[1].Id = last.entryId
    /\ Before[2].Id # last.entryId
    /\ Stored = <<Before[2]>>

\* C14: Get-all on an existing ambulance yields 200 with a sequence that is
\* never null: the stored entries, and the empty sequence when the stored
\* list is nil or empty.
C14_GetAllNeverNull ==
    Served("getall")
    => (/\ last.status = StatusOK
        /\ last.payload.kind = "list"
        /\ ~last.payload.isNil
        /\ last.payload.list = Before
        /\ (last.before.IsNil \/ Len(Before) = 0) => last.payload.list = <<>>)

\* A Get-all served on a document whose waiting list is nil.
C14_Witness ==
    /\ Served("getall") /\ last.status = StatusOK
    /\ last.before.IsNil
    /\ last.payload.list = <<>> /\ ~last.payload.isNil

\* C13: reconciling a list that was just reconciled changes nothing, for every
\* list, the empty one included: two reconciliations give what one gives.
C13_ReconcileIdempotent ==
    last.op = "reconcile2" => store = last.result.ambulance

\* A list of two entries with the same waitingSince, given with the ids out of
\* order, was reconciled twice.
C13_Witness ==
    /\ last.op = "reconcile2"
    /\ Len(Stored) = 2
    /\ Before # Stored
    /\ Stored[1].WaitingSince = Stored[2].WaitingSince
    /\ Stored[1].Id # Stored[2].Id
    /\ store = last.result.ambulance

\* C15: the entry a successful Create adds has the generated id when the body's
\* id is absent or "@new" and the body's id otherwise; it never has id "" or
\* "@new"; a generated id is the id of no entry that was in the list, because
\* the replacement precedes the conflict check (a generated id that meets an
\* entry's id is answered 409).
C15_CreateAssignsId ==
    /\ (Served("create") /\ last.status = StatusOK) =>
          LET added == last.payload.entry
          IN  /\ added.Id \notin {"", "@new"}
              /\ Count(Stored, added) = Count(Before, added) + 1
              /\ last.body.Id \in {"", "@new"} =>
                    /\ added.Id = last.genId
                    /\ \A i \in 1..Len(Before) : Before[i].Id # added.Id
              /\ last.body.Id \notin {"", "@new"} => added.Id = last.body.Id
    /\ (/\ Served("create") /\ last.bindOk /\ last.body.PatientId # ""
        /\ last.body.Id \in {"", "@new"}
        /\ \E i \in 1..Len(Before) : Before[i].Id = last.genId)
       => (last.status = StatusConflict /\ ~last.wrote)

\* A Create with the placeholder id was stored under the generated id, next to
\* an entry that an Update had given the id "@new".
C15_Witness ==
    /\ Served("create") /\ last.status = StatusOK
    /\ last.body.Id = "@new"
    /\ last.payload.entry.Id = "g"
    /\ \E i \in 1..Len(Before) : Before[i].Id = "@new"
    /\ Count(Stored, last.payload.entry) = 1

\* The list without its i-th entry.
Others(list, i) ==
    [k \in 1..(Len(list) - 1) |-> IF k < i THEN list[k] ELSE list[k + 1]]

\* C16: a successful Update leaves the number of stored entries as it was, and
\* every entry other than the one its path entryId identified is stored
\* afterwards with all four fields unchanged.
C16_UpdateKeepsOthers ==
    (Served("update") /\ last.status = StatusOK)
    => (/\ Len(Stored) = Len(Before)
        /\ \E k \in 1..Len(Stored) :
              \A e \in Entries(Before) \cup Entries(Stored) :
                  Count(Others(Stored, k), e) = Count(Others(Before, TargetIndex), e))

\* An Update changed the second of two entries; the first is stored as it was.
C16_Witness ==
    /\ Served("update") /\ last.status = StatusOK
    /\ Len(Before) = 2 /\ Len(Stored) = 2
    /\ TargetIndex = 2
    /\ Before[2] \notin Entries(Stored)
    /\ Before[1] \in Entries(Stored)

\* C17: every stored entry has a non-empty id and a non-empty patientId, after
\* any sequence of Create, Update and Delete requests.
C17_IdentifiersNonEmpty ==
    \A i \in 1..Len(Stored) : Stored[i].Id # "" /\ Stored[i].PatientId # ""

\* An Update whose body carries neither id nor patientId was stored.
C17_Witness ==
    /\ Served("update") /\ last.status = StatusOK /\ last.wrote
    /\ last.body.Id = "" /\ last.body.PatientId = ""
    /\ Len(Stored) = 2
    /\ \A i \in 1..Len(Stored) : Stored[i].Id # "" /\ Stored[i].PatientId # ""

\* C18: after a successful Update on path entryId X whose body carries a
\* non-empty id Y other than X, in a list where no other entry has id X or Y,
\* a Get-one served on the stored document yields 404 for X and 200 with the
\* updated entry for Y.
C18_ReachableUnderNewId ==
    (/\ Served("update") /\ last.status = StatusOK
     /\ last.body.Id \notin {"", last.entryId}
     /\ \A i \in 1..Len(Before) :
           i # TargetIndex => Before[i].Id \notin {last.entryId, last.body.Id})
    => (/\ GetWaitingListEntry(store, last.entryId).status = StatusNotFound
        /\ GetWaitingListEntry(store, last.body.Id).status = StatusOK
        /\ GetWaitingListEntry(store, last.body.Id).payload.kind = "entry"
        /\ GetWaitingListEntry(store, last.body.Id).payload.entry.Id = last.body.Id
        /\ GetWaitingListEntry(store, last.body.Id).payload.entry = ExpectedMerge)

\* An Update renamed entry "g" to "a" next to an entry of another id.
C18_Witness ==
    /\ Served("update") /\ last.status = StatusOK
    /\ last.entryId = "g" /\ last.body.Id = "a"
    /\ Len(Before) = 2
    /\ \A i \in 1..Len(Before) : i # TargetIndex => Before[i].Id = "@new"
    /\ GetWaitingListEntry(store, "g").status = StatusNotFound
    /\ GetWaitingListEntry(store, "a").status = StatusOK

====
